---- MODULE Spec2Model ----
(***************************************************************************)
(* Model of examples/multiline_demo.py: generate_sample_logs() and the     *)
(* script's entry point.                                                   *)
(*                                                                         *)
(* A Python str is modelled as the sequence of its lines, i.e. the value   *)
(* of s.split("\n"): a text is a non-empty sequence of strings, the empty  *)
(* str is <<"">>, and "\n" is <<"", "">>.  Standard output is the text     *)
(* written so far; its last element is the line still being written.       *)
(***************************************************************************)
EXTENDS Integers, Sequences, FiniteSets, TLC

\* Bounds of the model.
MaxClock == 3   \* the wall clock returns a tick in 0..MaxClock
MaxCalls == 2   \* calls an importing caller makes to generate_sample_logs()

VARIABLES
    name,       \* __name__ of the module: "__main__" when run as a script
    pc,         \* the source line about to be executed
    frame,      \* the locals of the running generate_sample_logs() call
    globals,    \* module globals bound by the entry point (line 66)
    stdout,     \* everything written to standard output so far
    retval,     \* the value a call has just returned, until the caller uses it
    results,    \* values an importing caller received from its calls
    clockLog    \* the values datetime.datetime.now() returned, in order

vars == <<name, pc, frame, globals, stdout, retval, results, clockLog>>

Clock == 0..MaxClock

\* An environment (locals, globals) with no name bound.
EmptyEnv == <<>>

\* The empty str and the text on standard output before any write.
EmptyText == <<"">>

\* No value is being returned.
NoValue == <<>>

(***************************************************************************)
(* str operations                                                          *)
(***************************************************************************)

\* a + b on strs held as line sequences: the last line of a and the first
\* line of b become one line.
Concat(a, b) ==
    SubSeq(a, 1, Len(a) - 1) \o <<a[Len(a)] \o b[1]>> \o Tail(b)

\* sys.stdout.write(text)
Write(out, text) == Concat(out, text)

\* print(text): writes text, then the default end "\n".
print(out, text) == Write(Write(out, text), <<"", "">>)

RECURSIVE ZeroPad(_, _)
ZeroPad(s, width) == IF Len(s) < width THEN ZeroPad("0" \o s, width) ELSE s

\* str() of the datetime read at line 17 ("YYYY-MM-DD HH:MM:SS.ffffff");
\* a tick is the microsecond field.
DatetimeStr(t) == <<"2024-01-15 10:00:00." \o ZeroPad(ToString(t), 6)>>

\* The parts of an f-string: literal text and replacement fields.
Lit(text) == [kind |-> "lit", text |-> text]
Field(id) == [kind |-> "field", id |-> id]

\* Evaluation of an f-string in env: the literal parts and the str() of each
\* replacement field's value, concatenated in order.
RECURSIVE FormatFString(_, _)
FormatFString(parts, env) ==
    IF parts = <<>> THEN EmptyText
    ELSE LET p == parts[Len(parts)]
             v == IF p.kind = "lit" THEN p.text ELSE DatetimeStr(env[p.id])
         IN  Concat(FormatFString(SubSeq(parts, 1, Len(parts) - 1), env), v)

(***************************************************************************)
(* The three f-strings of generate_sample_logs().  None of them has a      *)
(* replacement field.                                                      *)
(***************************************************************************)

\* Mutant: the retry line is logged before the exception.
JavaLogsRetryFirst == <<
    "2024-01-15 10:00:00 INFO  Starting UserService",
    "2024-01-15 10:00:02 INFO  Retrying user registration",
    "2024-01-15 10:00:01 ERROR Exception in user registration",
    "java.lang.RuntimeException: Database connection failed",
    "    at com.example.UserService.registerUser(UserService.java:42)",
    "    at com.example.UserController.signup(UserController.java:23)",
    "    at java.base/java.lang.Thread.run(Thread.java:829)",
    "Caused by: java.sql.SQLException: Connection timeout",
    "    at com.mysql.jdbc.Driver.connect(Driver.java:115)",
    "    ... 3 more",
    "2024-01-15 10:00:03 INFO  User registration successful" >>

\* Mutant: the cause's frame is missing, the elision follows "Caused by:".
JavaLogsNoCauseFrame == <<
    "2024-01-15 10:00:00 INFO  Starting UserService",
    "2024-01-15 10:00:01 ERROR Exception in user registration",
    "java.lang.RuntimeException: Database connection failed",
    "    at com.example.UserService.registerUser(UserService.java:42)",
    "    at com.example.UserController.signup(UserController.java:23)",
    "    at java.base/java.lang.Thread.run(Thread.java:829)",
    "Caused by: java.sql.SQLException: Connection timeout",
    "    ... 3 more",
    "2024-01-15 10:00:02 INFO  Retrying user registration",
    "2024-01-15 10:00:03 INFO  User registration successful" >>

JavaLogsLiteral == <<
    "2024-01-15 10:00:00 INFO  Starting UserService",
    "2024-01-15 10:00:01 ERROR Exception in user registration",
    "java.lang.RuntimeException: Database connection failed",
    "    at com.example.UserService.registerUser(UserService.java:42)",
    "    at com.example.UserController.signup(UserController.java:23)",
    "    at java.base/java.lang.Thread.run(Thread.java:829)",
    "Caused by: java.sql.SQLException: Connection timeout",
    "    at com.mysql.jdbc.Driver.connect(Driver.java:115)",
    "    ... 3 more",
    "2024-01-15 10:00:02 INFO  Retrying user registration",
    "2024-01-15 10:00:03 INFO  User registration successful" >>

\* Mutant: the exception line is logged after the trailing INFO lines.
PythonLogsErrorLast == <<
    "[2024-01-15 10:05:00] INFO: Processing user data",
    "[2024-01-15 10:05:01] ERROR: Failed to process user data",
    "Traceback (most recent call last):",
    "  File \"/app/user_processor.py\", line 25, in process_user",
    "    result = validate_email(user.email)",
    "  File \"/app/validators.py\", line 15, in validate_email",
    "    return regex.match(pattern, email)",
    "[2024-01-15 10:05:02] INFO: Skipping invalid user record",
    "[2024-01-15 10:05:03] INFO: Processing complete",
    "AttributeError: 'NoneType' object has no attribute 'match'" >>

\* Mutant: the source line of the second frame lost its indentation.
PythonLogsFlatSource == <<
    "[2024-01-15 10:05:00] INFO: Processing user data",
    "[2024-01-15 10:05:01] ERROR: Failed to process user data",
    "Traceback (most recent call last):",
    "  File \"/app/user_processor.py\", line 25, in process_user",
    "    result = validate_email(user.email)",
    "  File \"/app/validators.py\", line 15, in validate_email",
    "return regex.match(pattern, email)",
    "AttributeError: 'NoneType' object has no attribute 'match'",
    "[2024-01-15 10:05:02] INFO: Skipping invalid user record",
    "[2024-01-15 10:05:03] INFO: Processing complete" >>

PythonLogsLiteral == <<
    "[2024-01-15 10:05:00] INFO: Processing user data",
    "[2024-01-15 10:05:01] ERROR: Failed to process user data",
    "Traceback (most recent call last):",
    "  File \"/app/user_processor.py\", line 25, in process_user",
    "    result = validate_email(user.email)",
    "  File \"/app/validators.py\", line 15, in validate_email",
    "    return regex.match(pattern, email)",
    "AttributeError: 'NoneType' object has no attribute 'match'",
    "[2024-01-15 10:05:02] INFO: Skipping invalid user record",
    "[2024-01-15 10:05:03] INFO: Processing complete" >>

\* Mutant: the delimiter after the REDIS section comes after its banner.
ConfigLogsDelimiterAfterBanner == <<
    "=== DATABASE CONFIG ===",
    "host: localhost",
    "port: 5432",
    "database: myapp",
    "username: app_user",
    "connection_pool: 10",
    "---",
    "=== REDIS CONFIG ===",
    "---",
    "host: redis.internal",
    "port: 6379",
    "database: 0",
    "password: secret123",
    "=== API CONFIG ===",
    "base_url: https://api.example.com",
    "timeout: 30",
    "retries: 3" >>

\* Mutant: every section is closed by a delimiter, the last one too.
ConfigLogsTrailingDelimiter == <<
    "=== DATABASE CONFIG ===",
    "host: localhost",
    "port: 5432",
    "database: myapp",
    "username: app_user",
    "connection_pool: 10",
    "---",
    "=== REDIS CONFIG ===",
    "host: redis.internal",
    "port: 6379",
    "database: 0",
    "password: secret123",
    "---",
    "=== API CONFIG ===",
    "base_url: https://api.example.com",
    "timeout: 30",
    "retries: 3",
    "---" >>

ConfigLogsLiteral == <<
    "=== DATABASE CONFIG ===",
    "host: localhost",
    "port: 5432",
    "database: myapp",
    "username: app_user",
    "connection_pool: 10",
    "---",
    "=== REDIS CONFIG ===",
    "host: redis.internal",
    "port: 6379",
    "database: 0",
    "password: secret123",
    "---",
    "=== API CONFIG ===",
    "base_url: https://api.example.com",
    "timeout: 30",
    "retries: 3" >>

\* Mutant: the first timestamp is taken from the clock read at line 17.
JavaLogsFStringClock ==
    << Field("now"), Lit(<<" INFO  Starting UserService">> \o Tail(JavaLogsLiteral)) >>

JavaLogsFString == << Lit(JavaLogsLiteral) >>

PythonLogsFString == << Lit(PythonLogsLiteral) >>

ConfigLogsFString == << Lit(ConfigLogsLiteral) >>

\* The arguments of the three header print() calls.
JavaHeader == <<"=== Java Application Logs ===">>

\* Mutant: the header is printed without the leading "\n".
PythonHeaderNoBlank == <<"=== Python Application Logs ===">>

PythonHeader == <<"", "=== Python Application Logs ===">>

ConfigHeader == <<"", "=== Configuration Sections ===">>

(***************************************************************************)
(* State machine                                                           *)
(***************************************************************************)

\* The module has been loaded either as the script or by an importing
\* caller; the def has been executed and line 65 is next.
Init ==
    /\ name \in {"__main__", "importer"}
    /\ pc = "L65"
    /\ frame = EmptyEnv
    /\ globals = EmptyEnv
    /\ stdout = EmptyText
    /\ retval = NoValue
    /\ results = <<>>
    /\ clockLog = <<>>

\* Line 65: if __name__ == "__main__".
Guard ==
    /\ pc = "L65"
    /\ pc' = IF name = "__main__" THEN "L66" ELSE "imported"
    /\ UNCHANGED <<name, frame, globals, stdout, retval, results, clockLog>>

\* Line 66, the call: the entry point enters generate_sample_logs().
MainCall ==
    /\ pc = "L66"
    /\ pc' = "L17"
    /\ frame' = EmptyEnv
    /\ UNCHANGED <<name, globals, stdout, retval, results, clockLog>>

\* An importing caller enters generate_sample_logs().
ImporterCall ==
    /\ pc = "imported"
    /\ Len(results) < MaxCalls
    /\ pc' = "L17"
    /\ frame' = EmptyEnv
    /\ UNCHANGED <<name, globals, stdout, retval, results, clockLog>>

\* Line 17: now = datetime.datetime.now().
ReadClock ==
    /\ pc = "L17"
    /\ \E t \in Clock :
        /\ frame' = [now |-> t]
        /\ clockLog' = Append(clockLog, t)
    /\ pc' = "L20"
    /\ UNCHANGED <<name, globals, stdout, retval, results>>

\* Lines 20-30: java_logs = f"""...""".
BuildJava ==
    /\ pc = "L20"
    /\ frame' = frame @@ [java_logs |-> FormatFString(JavaLogsFString, frame)]
    /\ pc' = "L33"
    /\ UNCHANGED <<name, globals, stdout, retval, results, clockLog>>

\* Mutant: the block is also printed while it is built.
BuildPythonEcho ==
    /\ pc = "L33"
    /\ frame' = frame @@ [python_logs |-> FormatFString(PythonLogsFString, frame)]
    /\ stdout' = print(stdout, frame'.python_logs)
    /\ pc' = "L45"
    /\ UNCHANGED <<name, globals, retval, results, clockLog>>

\* Lines 33-42: python_logs = f"""...""".
BuildPython ==
    /\ pc = "L33"
    /\ frame' = frame @@ [python_logs |-> FormatFString(PythonLogsFString, frame)]
    /\ pc' = "L45"
    /\ UNCHANGED <<name, globals, stdout, retval, results, clockLog>>

\* Lines 45-61: config_logs = f"""...""".
BuildConfig ==
    /\ pc = "L45"
    /\ frame' = frame @@ [config_logs |-> FormatFString(ConfigLogsFString, frame)]
    /\ pc' = "L63"
    /\ UNCHANGED <<name, globals, stdout, retval, results, clockLog>>

\* Line 63: the tuple generate_sample_logs() returns.
ReturnValue(f) == <<f.java_logs, f.python_logs, f.config_logs>>

\* Line 63: return java_logs, python_logs, config_logs.  The frame is
\* dropped and control goes back to the caller with the value.
Return ==
    /\ pc = "L63"
    /\ retval' = ReturnValue(frame)
    /\ frame' = EmptyEnv
    /\ pc' = IF name = "__main__" THEN "L66_unpack" ELSE "imported_keep"
    /\ UNCHANGED <<name, globals, stdout, results, clockLog>>

\* Line 66, the assignment: the entry point unpacks the returned tuple into
\* the globals java_logs, python_logs, config_logs.
MainUnpack ==
    /\ pc = "L66_unpack"
    /\ globals' = [java_logs |-> retval[1], python_logs |-> retval[2],
                   config_logs |-> retval[3]]
    /\ retval' = NoValue
    /\ pc' = "L68"
    /\ UNCHANGED <<name, frame, stdout, results, clockLog>>

\* An importing caller keeps the value its call returned.
ImporterKeep ==
    /\ pc = "imported_keep"
    /\ results' = Append(results, retval)
    /\ retval' = NoValue
    /\ pc' = "imported"
    /\ UNCHANGED <<name, frame, globals, stdout, clockLog>>

\* Line 68: print("=== Java Application Logs ===").
PrintJavaHeader ==
    /\ pc = "L68"
    /\ stdout' = print(stdout, JavaHeader)
    /\ pc' = "L69"
    /\ UNCHANGED <<name, frame, globals, retval, results, clockLog>>

\* Line 69: print(java_logs).
PrintJavaLogs ==
    /\ pc = "L69"
    /\ stdout' = print(stdout, globals.java_logs)
    /\ pc' = "L70"
    /\ UNCHANGED <<name, frame, globals, retval, results, clockLog>>

\* Line 70: print("\n=== Python Application Logs ===").
PrintPythonHeader ==
    /\ pc = "L70"
    /\ stdout' = print(stdout, PythonHeader)
    /\ pc' = "L71"
    /\ UNCHANGED <<name, frame, globals, retval, results, clockLog>>

\* Line 71: print(python_logs).
PrintPythonLogs ==
    /\ pc = "L71"
    /\ stdout' = print(stdout, globals.python_logs)
    /\ pc' = "L72"
    /\ UNCHANGED <<name, frame, globals, retval, results, clockLog>>

\* Line 72: print("\n=== Configuration Sections ===").
PrintConfigHeader ==
    /\ pc = "L72"
    /\ stdout' = print(stdout, ConfigHeader)
    /\ pc' = "L73"
    /\ UNCHANGED <<name, frame, globals, retval, results, clockLog>>

\* Line 73: print(config_logs); the script ends.
PrintConfigLogs ==
    /\ pc = "L73"
    /\ stdout' = print(stdout, globals.config_logs)
    /\ pc' = "done"
    /\ UNCHANGED <<name, frame, globals, retval, results, clockLog>>

Next ==
    \/ Guard
    \/ MainCall
    \/ ImporterCall
    \/ ReadClock
    \/ BuildJava
    \/ BuildPython
    \/ BuildConfig
    \/ Return
    \/ MainUnpack
    \/ ImporterKeep
    \/ PrintJavaHeader
    \/ PrintJavaLogs
    \/ PrintPythonHeader
    \/ PrintPythonLogs
    \/ PrintConfigHeader
    \/ PrintConfigLogs

Spec == Init /\ [][Next]_vars

(***************************************************************************)
(* Predicates on lines and blocks used by the properties                   *)
(***************************************************************************)

StartsWith(s, p) == Len(s) >= Len(p) /\ SubSeq(s, 1, Len(p)) = p

EndsWith(s, p) == Len(s) >= Len(p) /\ SubSeq(s, Len(s) - Len(p) + 1, Len(s)) = p

\* The positions at which p occurs in s.
Occurrences(s, p) ==
    {i \in 1..(Len(s) - Len(p) + 1) : SubSeq(s, i, i + Len(p) - 1) = p}

Contains(s, p) == Occurrences(s, p) # {}

Digits == {"0", "1", "2", "3", "4", "5", "6", "7", "8", "9"}

\* s[from..to] is a non-empty run of decimal digits.
AllDigits(s, from, to) ==
    from <= to /\ \A i \in from..to : SubSeq(s, i, i) \in Digits

\* The number of leading spaces of a line.
Indent(s) ==
    IF \A i \in 1..Len(s) : SubSeq(s, i, i) = " " THEN Len(s)
    ELSE (CHOOSE i \in 1..Len(s) :
              SubSeq(s, i, i) # " " /\ \A j \in 1..(i - 1) : SubSeq(s, j, j) = " ") - 1

\* The indexes of the lines of a block that satisfy P.
LinesWhere(block, P(_)) == {i \in DOMAIN block : P(block[i])}

\* The values generate_sample_logs() has handed to a caller so far.
Returned ==
    {results[i] : i \in DOMAIN results}
        \cup (IF retval = NoValue THEN {} ELSE {retval})
        \cup (IF globals = EmptyEnv THEN {}
              ELSE {<<globals.java_logs, globals.python_logs, globals.config_logs>>})

\* The lines of generate_sample_logs() and of the entry point's prints.
GenerationLines == {"L17", "L20", "L33", "L45", "L63"}

PrintLines == {"L68", "L69", "L70", "L71", "L72", "L73"}

(***************************************************************************)
(* C1: the value generate_sample_logs() returns does not depend on the     *)
(* clock.  Any two values an importing caller received are equal, whatever *)
(* the clock returned in the two calls, and every returned value is the    *)
(* triple of the three literal blocks.                                     *)
(***************************************************************************)
C1_ReturnIndependentOfClock ==
    /\ \A i, j \in DOMAIN results : results[i] = results[j]
    /\ \A r \in Returned :
           r = <<JavaLogsLiteral, PythonLogsLiteral, ConfigLogsLiteral>>

\* Two calls have returned and the clock read differently in them.
C1_Witness ==
    /\ Len(results) >= 2
    /\ clockLog[1] # clockLog[2]

(***************************************************************************)
(* C2: the entry point writes exactly the Java header, the java block, a   *)
(* blank line, the Python header, the python block, a blank line, the      *)
(* configuration header and the config block, in this order, each once.    *)
(* At the end standard output is exactly that text, and at every moment    *)
(* before it is a prefix of it made of whole lines.                        *)
(***************************************************************************)
ExpectedOutput ==
    <<"=== Java Application Logs ===">> \o globals.java_logs
        \o <<"", "=== Python Application Logs ===">> \o globals.python_logs
        \o <<"", "=== Configuration Sections ===">> \o globals.config_logs
        \o <<"">>

C2_OutputSequence ==
    /\ pc = "done" => stdout = ExpectedOutput
    /\ stdout # EmptyText =>
           /\ globals # EmptyEnv
           /\ Len(stdout) <= Len(ExpectedOutput)
           /\ stdout[Len(stdout)] = ""
           /\ SubSeq(stdout, 1, Len(stdout) - 1)
                  = SubSeq(ExpectedOutput, 1, Len(stdout) - 1)

\* The script has run to its end.
C2_Witness == pc = "done" /\ Len(stdout) > 40

(***************************************************************************)
(* C9: generate_sample_logs() writes nothing to standard output and        *)
(* changes no state outside its own frame.  Every write to standard output *)
(* is a step of the entry point's prints, taken after the call returned    *)
(* and its value was unpacked; under an importing caller standard output   *)
(* stays empty however many calls are made.                                *)
(***************************************************************************)
C9_GenerationHasNoSideEffects ==
    /\ [](name # "__main__" => stdout = EmptyText)
    /\ [][/\ pc \in GenerationLines =>
                 UNCHANGED <<name, globals, stdout, results>>
          /\ stdout' # stdout =>
                 /\ name = "__main__"
                 /\ pc \in PrintLines
                 /\ frame = EmptyEnv
                 /\ DOMAIN globals = {"java_logs", "python_logs", "config_logs"}]_vars

\* An importing caller has made every call it may make.
C9_Witness ==
    /\ name # "__main__"
    /\ Len(results) = MaxCalls
    /\ Len(clockLog) = MaxCalls

(***************************************************************************)
(* Line forms                                                              *)
(***************************************************************************)

Min(S) == CHOOSE x \in S : \A y \in S : x <= y

Max(S) == CHOOSE x \in S : \A y \in S : x >= y

\* "=== <NAME> CONFIG ===" with a non-empty name.
IsBanner(l) ==
    /\ StartsWith(l, "=== ")
    /\ EndsWith(l, " CONFIG ===")
    /\ Len(l) > Len("=== ") + Len(" CONFIG ===")

IsDelimiter(l) == l = "---"

\* "<key>: <value>": a key without spaces or colons, then ": ", then a
\* non-empty value.
IsKeyValue(l) ==
    /\ ~IsBanner(l)
    /\ ~IsDelimiter(l)
    /\ \E i \in Occurrences(l, ": ") :
           /\ i > 1
           /\ i + 2 <= Len(l)
           /\ \A k \in 1..(i - 1) : SubSeq(l, k, k) \notin {" ", ":"}

\* "    at <frame>"
IsJavaFrame(l) == StartsWith(l, "    at ") /\ Len(l) > Len("    at ")

\* "    ... <digits> more"
IsElision(l) ==
    /\ StartsWith(l, "    ... ")
    /\ EndsWith(l, " more")
    /\ AllDigits(l, Len("    ... ") + 1, Len(l) - Len(" more"))

IsCausedBy(l) == StartsWith(l, "Caused by:")

\* "<timestamp> INFO  <message>"
IsJavaInfo(l) == Contains(l, " INFO ") /\ Indent(l) = 0

IsTracebackHeader(l) == l = "Traceback (most recent call last):"

\* '  File "<path>", line <n>, in <function>'
IsFileLine(l) ==
    /\ StartsWith(l, "  File \"")
    /\ \E i \in Occurrences(l, "\", line "), j \in Occurrences(l, ", in ") :
           /\ i > Len("  File \"") + 1
           /\ AllDigits(l, i + Len("\", line "), j - 1)
           /\ j + Len(", in ") <= Len(l)

\* The first lines of the frame pairs of a block: a File line immediately
\* followed by a line indented more deeply.
FramePairs(block) ==
    {k \in DOMAIN block :
        /\ IsFileLine(block[k])
        /\ k + 1 \in DOMAIN block
        /\ Indent(block[k + 1]) > Indent(block[k])}

\* "<ExceptionClass>: <message>", not indented.
IsExceptionLine(l) ==
    /\ Len(l) > 0
    /\ SubSeq(l, 1, 1) \notin {" ", "["}
    /\ \E i \in Occurrences(l, ": ") :
           /\ i > 1
           /\ i + 2 <= Len(l)
           /\ \A k \in 1..(i - 1) : SubSeq(l, k, k) # " "

\* A line that holds the start of an SQL statement.
IsSqlLine(l) ==
    \E kw \in {"SELECT ", "INSERT INTO ", "UPDATE ", "DELETE FROM ", "CREATE TABLE "} :
        Contains(l, kw)

(***************************************************************************)
(* C3: in the output of a finished run the first line is the Java header,  *)
(* and some line containing "java.lang.RuntimeException: Database          *)
(* connection failed" precedes every line containing "Retrying user        *)
(* registration".                                                          *)
(***************************************************************************)
C3_ExceptionBeforeRetry ==
    pc = "done" =>
        /\ stdout[1] = "=== Java Application Logs ==="
        /\ \E i \in DOMAIN stdout :
               /\ Contains(stdout[i], "java.lang.RuntimeException: Database connection failed")
               /\ \A j \in DOMAIN stdout :
                      Contains(stdout[j], "Retrying user registration") => i < j

\* The run has finished and its output has a retry line.
C3_Witness ==
    /\ pc = "done"
    /\ \E j \in DOMAIN stdout : Contains(stdout[j], "Retrying user registration")

(***************************************************************************)
(* C4: in the output of a finished run the line "AttributeError:           *)
(* 'NoneType' object has no attribute 'match'" occurs, after the line      *)
(* "Traceback (most recent call last):" and before the line containing     *)
(* "Processing complete".                                                  *)
(***************************************************************************)
C4_AttributeErrorBetween ==
    pc = "done" =>
        LET T == LinesWhere(stdout, IsTracebackHeader)
            A == LinesWhere(stdout,
                     LAMBDA l : l = "AttributeError: 'NoneType' object has no attribute 'match'")
            P == LinesWhere(stdout, LAMBDA l : Contains(l, "Processing complete"))
        IN  /\ T # {} /\ A # {} /\ P # {}
            /\ \A t \in T, a \in A, p \in P : t < a /\ a < p

\* The run has finished and the python block has been written.
C4_Witness ==
    /\ pc = "done"
    /\ \E j \in DOMAIN stdout : Contains(stdout[j], "Processing complete")
    /\ \E j \in DOMAIN stdout : IsTracebackHeader(stdout[j])

(***************************************************************************)
(* C5: every returned config block has the banners "=== DATABASE CONFIG    *)
(* ===", "=== REDIS CONFIG ===", "=== API CONFIG ===" in that order, and   *)
(* the line right after each of them is a key: value line.                 *)
(***************************************************************************)
C5_BannersInOrderWithKeys ==
    \A r \in Returned :
        LET c == r[3]
            D == LinesWhere(c, LAMBDA l : l = "=== DATABASE CONFIG ===")
            R == LinesWhere(c, LAMBDA l : l = "=== REDIS CONFIG ===")
            A == LinesWhere(c, LAMBDA l : l = "=== API CONFIG ===")
        IN  /\ D # {} /\ R # {} /\ A # {}
            /\ \A d \in D, e \in R, a \in A : d < e /\ e < a
            /\ \A b \in D \cup R \cup A :
                   b + 1 \in DOMAIN c /\ IsKeyValue(c[b + 1])

\* A config block with its last banner has been returned.
C5_Witness ==
    \E r \in Returned : \E i \in DOMAIN r[3] : r[3][i] = "=== API CONFIG ==="

(***************************************************************************)
(* C6: every returned config block has exactly three banner lines and      *)
(* exactly two "---" lines; the line right before the second and the third *)
(* banner is "---" (one delimiter, not two), no "---" comes before the     *)
(* first banner and none after the last one.                               *)
(***************************************************************************)
C6_ThreeBannersTwoDelimiters ==
    \A r \in Returned :
        LET c == r[3]
            B == LinesWhere(c, IsBanner)
            D == LinesWhere(c, IsDelimiter)
        IN  /\ Cardinality(B) = 3
            /\ Cardinality(D) = 2
            /\ \A b \in B \ {Min(B)} : (b - 1) \in D /\ (b - 2) \notin D
            /\ \A d \in D : Min(B) < d /\ d < Max(B)

\* A config block with a delimiter line has been returned.
C6_Witness ==
    \E r \in Returned : \E i \in DOMAIN r[3] : IsDelimiter(r[3][i])

(***************************************************************************)
(* C7: every returned java block has exactly one line starting with        *)
(* "Caused by:" and exactly one elision line "    ... <digits> more"; the  *)
(* elision line comes after the caused-by line with at least one           *)
(* "    at <frame>" line between them, and exactly two INFO lines follow   *)
(* the elision line.                                                       *)
(***************************************************************************)
C7_CausedByAndElision ==
    \A r \in Returned :
        LET j == r[1]
            C == LinesWhere(j, IsCausedBy)
            E == LinesWhere(j, IsElision)
        IN  /\ Cardinality(C) = 1
            /\ Cardinality(E) = 1
            /\ \A c \in C, e \in E :
                   /\ c < e
                   /\ \E k \in (c + 1)..(e - 1) : IsJavaFrame(j[k])
                   /\ Cardinality({k \in (e + 1)..Len(j) : IsJavaInfo(j[k])}) = 2

\* A java block with an elision line has been returned.
C7_Witness ==
    \E r \in Returned : \E i \in DOMAIN r[1] : IsElision(r[1][i])

(***************************************************************************)
(* C8: every returned python block has exactly one line "Traceback (most   *)
(* recent call last):" and at least two frame pairs (a File line           *)
(* immediately followed by a more deeply indented line), and all frame     *)
(* pairs lie between the traceback header and the exception line.          *)
(***************************************************************************)
C8_TracebackFramePairs ==
    \A r \in Returned :
        LET p == r[2]
            T == LinesWhere(p, IsTracebackHeader)
            X == LinesWhere(p, IsExceptionLine)
            F == FramePairs(p)
        IN  /\ Cardinality(T) = 1
            /\ Cardinality(F) >= 2
            /\ Cardinality(X) = 1
            /\ \A t \in T, x \in X, k \in F : t < k /\ k + 1 < x

\* A python block with a File line has been returned.
C8_Witness ==
    \E r \in Returned : \E i \in DOMAIN r[2] : IsFileLine(r[2][i])

(***************************************************************************)
(* C10: the value generate_sample_logs() returns includes a multi-line SQL *)
(* query sample, as the module docstring announces: every returned value   *)
(* has a block with a line that starts an SQL statement.                   *)
(***************************************************************************)
C10_SqlSampleReturned ==
    \A r \in Returned :
        \E b \in DOMAIN r : \E i \in DOMAIN r[b] : IsSqlLine(r[b][i])

====
